---- MODULE Spec2Model ----
(***************************************************************************)
(* Screen layout solver of slam (src/ext/screen_layout.cpp).               *)
(*                                                                         *)
(* compute_screen_layout enumerates sequence pairs (layout templates),     *)
(* drops those that contradict the user constraints, instantiates each     *)
(* remaining template with rectangle_packer (an integer set whose          *)
(* lexicographic minimum isl computes) and keeps the best solution.        *)
(* Screens are numbered 0..n-1 as in the code. The module also covers the  *)
(* Python binding (src/ext/boost_wrapper.cpp), the isl objects a packer    *)
(* owns, and the direction inversions of the older sources                 *)
(* (src/ext_screen_layout.h, src/slam_util.c).                             *)
(***************************************************************************)
EXTENDS Integers, Sequences, FiniteSets, TLC

\* ------------------------------------------------------------------------
\* Bounds of the model
\* ------------------------------------------------------------------------
MaxScreens == 3
MaxSize == 3
MaxTotal == 7
MaxVirtual == 3
MaxVMin == 2
MaxRelabelTotal == 6
MaxPackerTotal == 10
MaxConstrainedTotal == 6
MaxSolveCalls == 2
MaxBindingScreens == 2
MaxBindingSize == 1
MaxDirValue == 5

\* The distance variables the model enumerates: the centers of two screens
\* inside the virtual screen are at most MaxVirtual apart
MaxDistance == MaxVirtual + 1

\* ------------------------------------------------------------------------
\* screen_layout.h : pair, dir
\* ------------------------------------------------------------------------
pair(px, py) == [x |-> px, y |-> py]

\* pair_less with the members compared in the other order: height first
pair_less_height_first(p, q) == p.y < q.y \/ (p.y = q.y /\ p.x < q.x)

pair_less(p, q) == p.x < q.x \/ (p.x = q.x /\ p.y < q.y)

none == 0
left == 1
right == 2
above == 3
under == 4

Dirs == {none, left, right, above, under}

dir_invert(d) ==
    CASE d = left -> right
      [] d = right -> left
      [] d = above -> under
      [] d = under -> above
      [] OTHER -> none

\* src/ext_screen_layout.h : enum dir { none, left, right, above, under }
\* has the same enumerators; invert_dir is defined on them only
invert_dir(d) ==
    CASE d = none -> none
      [] d = left -> right
      [] d = right -> left
      [] d = above -> under
      [] d = under -> above

\* src/slam_util.c : enum relation_dir_t
C_NONE == 0
C_LEFT_OF == 1
C_RIGHT_OF == 4
C_ABOVE == 2
C_BELOW == 3
C_NB == 5

RelationDirs == {C_NONE, C_LEFT_OF, C_RIGHT_OF, C_ABOVE, C_BELOW}

relation_reverse_dir(c) == C_NB - c

mk_setting(nb_screen) == [sa \in 0..(nb_screen - 1) |-> [sb \in 0..(nb_screen - 1) |-> none]]

FloorDiv(m, d) == m \div d

\* C++ integer division truncates toward zero (TLA+ \div floors).
TruncDiv(m, d) == IF m >= 0 THEN m \div d ELSE -((-m) \div d)

\* ------------------------------------------------------------------------
\* sequence_pair
\* ------------------------------------------------------------------------
Identity(size) == [i \in 0..(size - 1) |-> i]

\* std::reverse of v[from .. size-1]
ReverseFrom(v, from, size) ==
    [i \in 0..(size - 1) |-> IF i < from THEN v[i] ELSE v[from + size - 1 - i]]

\* std::next_permutation on v[0 .. size-1]: the rearranged range and the
\* returned flag (false when the range wrapped around to sorted order).
next_permutation(v, size) ==
    LET Asc == {i \in 0..(size - 2) : v[i] < v[i + 1]}
    IN  IF Asc = {}
        THEN [range |-> ReverseFrom(v, 0, size), more |-> FALSE]
        ELSE LET i == CHOOSE k \in Asc : \A m \in Asc : m <= k
                 j == CHOOSE k \in (i + 1)..(size - 1) :
                         /\ v[k] > v[i]
                         /\ \A m \in (i + 1)..(size - 1) : v[m] > v[i] => m <= k
                 swapped == [v EXCEPT ![i] = v[j], ![j] = v[i]]
             IN  [range |-> ReverseFrom(swapped, i + 1, size), more |-> TRUE]

\* next without the second sequence: stops when the first one wraps around
next_first_only(sa, sb, size) ==
    LET na == next_permutation(sa, size)
    IN  [a |-> na.range, b |-> sb, more |-> na.more]

\* sequence_pair::next : a's next permutation, and b's only when a wrapped.
next(sa, sb, size) ==
    LET na == next_permutation(sa, size)
    IN  IF na.more
        THEN [a |-> na.range, b |-> sb, more |-> TRUE]
        ELSE LET nb == next_permutation(sb, size)
             IN  [a |-> na.range, b |-> nb.range, more |-> nb.more]

ordering_above_under_swapped(pa, pb, sa, sb) ==
    LET left_diff == pa[sb] - pa[sa]
        right_diff == pb[sb] - pb[sa]
    IN  IF left_diff > 0
        THEN (IF right_diff > 0 THEN left ELSE under)
        ELSE (IF right_diff > 0 THEN above ELSE right)

\* sequence_pair::ordering (sa, sb) for the pair (pa, pb)
ordering(pa, pb, sa, sb) ==
    LET left_diff == pa[sb] - pa[sa]
        right_diff == pb[sb] - pb[sa]
    IN  IF left_diff > 0
        THEN (IF right_diff > 0 THEN left ELSE above)
        ELSE (IF right_diff > 0 THEN under ELSE right)

\* ------------------------------------------------------------------------
\* rectangle_packer : variable indexes
\* ------------------------------------------------------------------------
\* enum axis { X = 1, Y = 0, Next = 2 } : Y is placed before X
X == 1
Y == 0
AxisNext == 2

v_objective == 0
v_vscreen_size(ax) == v_objective + 1 + ax
v_screen_pos(nb_screen, sc, ax) == v_vscreen_size(AxisNext) + ax * nb_screen + sc
v_max_var(nb_screen, cnstr) == v_screen_pos(nb_screen, 0, AxisNext) + cnstr
max_var_nb(nb_screen) == (nb_screen * (nb_screen - 1)) \div 2
v_nb(nb_screen) == v_max_var(nb_screen, max_var_nb(nb_screen))

\* The x or y member of a pair, by axis.
Member(pr, ax) == IF ax = X THEN pr.x ELSE pr.y

\* The lower-triangle pairs (sa, sb), sb < sa, the constructor's loops visit.
ScreenPairs(nb_screen) ==
    {pr \in (0..(nb_screen - 1)) \X (0..(nb_screen - 1)) : pr[2] < pr[1]}

\* The distance variable of a pair: distance_var takes them in loop order
\* (next_max_var++), so the pair (sa, sb) gets number sa*(sa-1)/2 + sb.
MaxVarOf(nb_screen, sa, sb) == v_max_var(nb_screen, (sa * (sa - 1)) \div 2 + sb)

\* ------------------------------------------------------------------------
\* rectangle_packer : polyhedral constraints, as predicates on a point p
\* (a function from variable index to integer)
\* ------------------------------------------------------------------------
\* more_than_const as a strict inequality
more_than_const_strict(p, v, constant) == constant < p[v]

more_than_const(p, v, constant) == constant <= p[v]
positive_or_zero(p, v) == more_than_const(p, v, 0)
less_than_const(p, v, constant) == p[v] <= constant
offseted_less_than_var(p, v, offset, v2) == p[v] + offset <= p[v2]
offseted_diff_less_than_var(p, va, vb, offset, mv) == p[va] - p[vb] + offset <= p[mv]

\* virtual_screen_boundaries without the lower bound
virtual_screen_boundaries_no_min(p, ax, vscreen_min_size, vscreen_max_size) ==
    less_than_const(p, v_vscreen_size(ax), Member(vscreen_max_size, ax))

\* "Virtual screen boundaries", on one axis
virtual_screen_boundaries(p, ax, vscreen_min_size, vscreen_max_size) ==
    /\ more_than_const(p, v_vscreen_size(ax), Member(vscreen_min_size, ax))
    /\ less_than_const(p, v_vscreen_size(ax), Member(vscreen_max_size, ax))

\* "Screens inside virtual screen", on one axis
screens_inside(p, ax, nb_screen, sizes) ==
    \A sc \in 0..(nb_screen - 1) :
        /\ positive_or_zero(p, v_screen_pos(nb_screen, sc, ax))
        /\ offseted_less_than_var(p, v_screen_pos(nb_screen, sc, ax),
                                  Member(sizes[sc], ax), v_vscreen_size(ax))

\* The axis a direction orders the two screens on.
DirAxis(d) == IF d \in {left, right} THEN X ELSE Y

\* ordering_constraint without the size of the first screen as offset
ordering_constraint_no_offset(p, nb_screen, sizes, d, sa, sb) ==
    CASE d = left ->
           offseted_less_than_var(p, v_screen_pos(nb_screen, sa, X), 0,
                                  v_screen_pos(nb_screen, sb, X))
      [] d = right ->
           offseted_less_than_var(p, v_screen_pos(nb_screen, sb, X), 0,
                                  v_screen_pos(nb_screen, sa, X))
      [] d = above ->
           offseted_less_than_var(p, v_screen_pos(nb_screen, sa, Y), 0,
                                  v_screen_pos(nb_screen, sb, Y))
      [] d = under ->
           offseted_less_than_var(p, v_screen_pos(nb_screen, sb, Y), 0,
                                  v_screen_pos(nb_screen, sa, Y))

\* ordering_constraint with, for left and above, the size of the second
\* screen as offset
ordering_constraint_second_size(p, nb_screen, sizes, d, sa, sb) ==
    CASE d = left ->
           offseted_less_than_var(p, v_screen_pos(nb_screen, sa, X), sizes[sb].x,
                                  v_screen_pos(nb_screen, sb, X))
      [] d = right ->
           offseted_less_than_var(p, v_screen_pos(nb_screen, sb, X), sizes[sb].x,
                                  v_screen_pos(nb_screen, sa, X))
      [] d = above ->
           offseted_less_than_var(p, v_screen_pos(nb_screen, sa, Y), sizes[sb].y,
                                  v_screen_pos(nb_screen, sb, Y))
      [] d = under ->
           offseted_less_than_var(p, v_screen_pos(nb_screen, sb, Y), sizes[sb].y,
                                  v_screen_pos(nb_screen, sa, Y))

\* "Screen ordering constraints" : the inequality of one pair
ordering_constraint(p, nb_screen, sizes, d, sa, sb) ==
    CASE d = left ->
           offseted_less_than_var(p, v_screen_pos(nb_screen, sa, X), sizes[sa].x,
                                  v_screen_pos(nb_screen, sb, X))
      [] d = right ->
           offseted_less_than_var(p, v_screen_pos(nb_screen, sb, X), sizes[sb].x,
                                  v_screen_pos(nb_screen, sa, X))
      [] d = above ->
           offseted_less_than_var(p, v_screen_pos(nb_screen, sa, Y), sizes[sa].y,
                                  v_screen_pos(nb_screen, sb, Y))
      [] d = under ->
           offseted_less_than_var(p, v_screen_pos(nb_screen, sb, Y), sizes[sb].y,
                                  v_screen_pos(nb_screen, sa, Y))

\* The default branch of the switch on layout.ordering (sa, sb) is taken:
\* the constructor throws std::runtime_error
unordered_screens(nb_screen, pa, pb) ==
    \E pr \in ScreenPairs(nb_screen) :
        ordering(pa, pb, pr[1], pr[2]) \notin {left, right, above, under}

\* The template as the constructor's loops read it: for the k-th pair
\* (sa, sb) of the loops, <<sa, sb, layout.ordering (sa, sb)>>.
PairNumbered(nb_screen, k) ==
    CHOOSE pr \in ScreenPairs(nb_screen) : (pr[1] * (pr[1] - 1)) \div 2 + pr[2] = k

Template(nb_screen, pa, pb) ==
    [k \in 1..max_var_nb(nb_screen) |->
        LET pr == PairNumbered(nb_screen, k - 1)
        IN  <<pr[1], pr[2], ordering(pa, pb, pr[1], pr[2])>>]

\* The ordering constraints that bear on one axis
screen_ordering(p, ax, nb_screen, sizes, template) ==
    \A k \in DOMAIN template :
        DirAxis(template[k][3]) = ax =>
            ordering_constraint(p, nb_screen, sizes, template[k][3],
                                template[k][1], template[k][2])

\* distance_var between the corners of the screens instead of their centers
distance_var_corners(p, sa_var, sa_size, sb_var, sb_size) ==
    LET d1 == p[sa_var] - p[sb_var]
        d2 == p[sb_var] - p[sa_var]
    IN  IF d1 >= d2 THEN d1 ELSE d2

\* distance_var : mv is bounded below by the two offseted differences; the
\* least mv that satisfies both.
distance_var(p, sa_var, sa_size, sb_var, sb_size) ==
    LET d1 == p[sa_var] - p[sb_var] + TruncDiv(sa_size - sb_size, 2)
        d2 == p[sb_var] - p[sa_var] + TruncDiv(sb_size - sa_size, 2)
    IN  IF d1 >= d2 THEN d1 ELSE d2

\* The distance variable of the pair (sa, sb) ordered by d: centers on the
\* axis the direction does not order.
pair_distance(p, nb_screen, sizes, d, sa, sb) ==
    CASE d = left ->
           distance_var(p, v_screen_pos(nb_screen, sa, Y), sizes[sa].y,
                        v_screen_pos(nb_screen, sb, Y), sizes[sb].y)
      [] d = right ->
           distance_var(p, v_screen_pos(nb_screen, sb, Y), sizes[sb].y,
                        v_screen_pos(nb_screen, sa, Y), sizes[sa].y)
      [] d = above ->
           distance_var(p, v_screen_pos(nb_screen, sa, X), sizes[sa].x,
                        v_screen_pos(nb_screen, sb, X), sizes[sb].x)
      [] d = under ->
           distance_var(p, v_screen_pos(nb_screen, sb, X), sizes[sb].x,
                        v_screen_pos(nb_screen, sa, X), sizes[sa].x)

\* The constraint gap of the pair (sa, sb) ordered by d, as coeffs gathers
\* it (left: o += sb.x - sa.x, ...)
pair_gap(p, nb_screen, d, sa, sb) ==
    CASE d = left -> p[v_screen_pos(nb_screen, sb, X)] - p[v_screen_pos(nb_screen, sa, X)]
      [] d = right -> p[v_screen_pos(nb_screen, sa, X)] - p[v_screen_pos(nb_screen, sb, X)]
      [] d = above -> p[v_screen_pos(nb_screen, sb, Y)] - p[v_screen_pos(nb_screen, sa, Y)]
      [] d = under -> p[v_screen_pos(nb_screen, sa, Y)] - p[v_screen_pos(nb_screen, sb, Y)]

RECURSIVE SumOver(_, _)
SumOver(f, S) ==
    IF S = {} THEN 0
    ELSE LET e == CHOOSE k \in S : TRUE IN f[e] + SumOver(f, S \ {e})

\* equality (coeffs), solved for the objective variable (its coefficient is
\* -1): the sum over the pairs of the gap and of the distance variable
RECURSIVE equality(_, _, _, _)
equality(p, nb_screen, template, k) ==
    IF k > Len(template) THEN 0
    ELSE pair_gap(p, nb_screen, template[k][3], template[k][1], template[k][2])
         + p[v_max_var(nb_screen, k - 1)]
         + equality(p, nb_screen, template, k + 1)

\* ------------------------------------------------------------------------
\* rectangle_packer : the constraint set, its lexicographic minimum, solve
\* ------------------------------------------------------------------------
\* The position variables of one axis
PosVars(nb_screen, ax) == {v_screen_pos(nb_screen, sc, ax) : sc \in 0..(nb_screen - 1)}

\* The assignments of one axis' position variables that satisfy the
\* ordering constraints bearing on that axis. Positions and virtual screen
\* sizes lie in 0..vscreen_max_size: positions are positive_or_zero and
\* position + size <= virtual screen size <= vscreen_max_size.
AxisPositions(ax, nb_screen, vscreen_max_size, sizes, template) ==
    {f \in [PosVars(nb_screen, ax) -> 0..Member(vscreen_max_size, ax)] :
        screen_ordering(f, ax, nb_screen, sizes, template)}

\* One axis' positions f with a virtual screen size v on that axis
WithSize(f, ax, v) == f @@ (v_vscreen_size(ax) :> v)

\* The virtual screen sizes that hold the positions f within the boundaries
AxisSizes(f, ax, nb_screen, vscreen_min_size, vscreen_max_size, sizes) ==
    {v \in 0..Member(vscreen_max_size, ax) :
        /\ virtual_screen_boundaries(WithSize(f, ax, v), ax, vscreen_min_size, vscreen_max_size)
        /\ screens_inside(WithSize(f, ax, v), ax, nb_screen, sizes)}

\* The assignments of one axis' variables (positions and virtual screen
\* size) that satisfy the constraints bearing on that axis
AxisPoints(ax, nb_screen, vscreen_min_size, vscreen_max_size, sizes, template) ==
    UNION {{WithSize(f, ax, v) :
              v \in AxisSizes(f, ax, nb_screen, vscreen_min_size, vscreen_max_size, sizes)} :
           f \in AxisPositions(ax, nb_screen, vscreen_max_size, sizes, template)}

\* The distance variables of an assignment of both axes
distance_vars(f, nb_screen, sizes, template) ==
    [mv \in {v_max_var(nb_screen, k - 1) : k \in DOMAIN template} |->
        LET t == template[mv - v_max_var(nb_screen, 0) + 1]
        IN  pair_distance(f, nb_screen, sizes, t[3], t[1], t[2])]

\* A point of `solutions` from an assignment of both axes: the distance
\* variables on their lower bound, the objective from the equality.
Complete(f, nb_screen, sizes, template) ==
    LET g == f @@ distance_vars(f, nb_screen, sizes, template)
    IN  g @@ (v_objective :> equality(g, nb_screen, template, 1))

\* The integer points of `solutions` after the constructor, restricted to
\* those whose distance variables sit on their lower bound: the objective
\* is the first coordinate isl minimises and each distance variable adds to
\* it, so the lexicographic minimum is one of them.
solutions_set(nb_screen, vscreen_min_size, vscreen_max_size, sizes, pa, pb) ==
    LET template == Template(nb_screen, pa, pb)
    IN  {Complete(fx @@ fy, nb_screen, sizes, template) :
            fx \in AxisPoints(X, nb_screen, vscreen_min_size, vscreen_max_size, sizes, template),
            fy \in AxisPoints(Y, nb_screen, vscreen_min_size, vscreen_max_size, sizes, template)}

\* distance_var : the two inequalities it adds on the free variable mv
distance_var_constraints(p, sa_var, sa_size, sb_var, sb_size, mv) ==
    /\ offseted_diff_less_than_var(p, sa_var, sb_var, TruncDiv(sa_size - sb_size, 2), mv)
    /\ offseted_diff_less_than_var(p, sb_var, sa_var, TruncDiv(sb_size - sa_size, 2), mv)

\* The inequalities on the distance variable mv of the pair (sa, sb)
\* ordered by d
pair_distance_constraints(p, nb_screen, sizes, d, sa, sb, mv) ==
    CASE d = left ->
           distance_var_constraints(p, v_screen_pos(nb_screen, sa, Y), sizes[sa].y,
                                    v_screen_pos(nb_screen, sb, Y), sizes[sb].y, mv)
      [] d = right ->
           distance_var_constraints(p, v_screen_pos(nb_screen, sb, Y), sizes[sb].y,
                                    v_screen_pos(nb_screen, sa, Y), sizes[sa].y, mv)
      [] d = above ->
           distance_var_constraints(p, v_screen_pos(nb_screen, sa, X), sizes[sa].x,
                                    v_screen_pos(nb_screen, sb, X), sizes[sb].x, mv)
      [] d = under ->
           distance_var_constraints(p, v_screen_pos(nb_screen, sb, X), sizes[sb].x,
                                    v_screen_pos(nb_screen, sa, X), sizes[sa].x, mv)

\* The integer points of `solutions` after the constructor whose distance
\* variables are at most MaxDistance. The distance variables are bounded
\* below only, and the objective with them: the points left out have a
\* larger objective than the point with the same positions in the set.
solutions_upto(nb_screen, vscreen_min_size, vscreen_max_size, sizes, pa, pb) ==
    LET template == Template(nb_screen, pa, pb)
        mvs == {v_max_var(nb_screen, k - 1) : k \in DOMAIN template}
        free == {fx @@ fy @@ fd :
                    fx \in AxisPoints(X, nb_screen, vscreen_min_size, vscreen_max_size,
                                      sizes, template),
                    fy \in AxisPoints(Y, nb_screen, vscreen_min_size, vscreen_max_size,
                                      sizes, template),
                    fd \in [mvs -> 0..MaxDistance]}
        held == {g \in free :
                    \A k \in DOMAIN template :
                        pair_distance_constraints(g, nb_screen, sizes, template[k][3],
                            template[k][1], template[k][2], v_max_var(nb_screen, k - 1))}
    IN  {g @@ (v_objective :> equality(g, nb_screen, template, 1)) : g \in held}

\* The least element of a non-empty set of integers
MinOf(T) == CHOOSE m \in T : \A k \in T : m <= k

\* isl_set_lexmin : minimise coordinate 0, then 1, ... (from coordinate v on)
RECURSIVE lexmin_from(_, _, _)
lexmin_from(S, v, nb) ==
    IF v = nb \/ S = {} THEN S
    ELSE LET m == MinOf({p[v] : p \in S})
         IN  lexmin_from({p \in S : p[v] = m}, v + 1, nb)

lexmin_objective_then_tallest(S, nb) ==
    LET least == lexmin_from(S, 0, 1)
    IN  IF least = {} THEN {}
        ELSE LET h == CHOOSE m \in {p[1] : p \in least} : \A p \in least : p[1] <= m
             IN  lexmin_from({p \in least : p[1] = h}, 2, nb)

isl_set_lexmin(S, nb) == lexmin_from(S, 0, nb)

\* isl points: a void point for the empty set, a null pointer before solve
NullPoint == [state |-> "null", coord |-> <<>>]
VoidPoint == [state |-> "void", coord |-> <<>>]
isl_set_sample_point(S) ==
    IF S = {} THEN VoidPoint
    ELSE [state |-> "point", coord |-> CHOOSE p \in S : TRUE]
isl_point_is_void(pt) == pt.state = "void"

\* The part of the objective that one axis' variables decide: the gaps of
\* the pairs ordered on this axis and the center distances of the pairs
\* ordered on the other axis.
RECURSIVE axis_objective(_, _, _, _, _, _)
axis_objective(ax, f, nb_screen, sizes, template, k) ==
    IF k > Len(template) THEN 0
    ELSE (IF DirAxis(template[k][3]) = ax
          THEN pair_gap(f, nb_screen, template[k][3], template[k][1], template[k][2])
          ELSE pair_distance(f, nb_screen, sizes, template[k][3],
                             template[k][1], template[k][2]))
         + axis_objective(ax, f, nb_screen, sizes, template, k + 1)

\* The assignments of one axis' variables with the least axis_objective,
\* which the positions decide alone
least_on_axis(ax, nb_screen, vscreen_min_size, vscreen_max_size, sizes, template) ==
    LET scored ==
            {<<axis_objective(ax, f, nb_screen, sizes, template, 1), f>> : f \in
                {g \in AxisPositions(ax, nb_screen, vscreen_max_size, sizes, template) :
                    AxisSizes(g, ax, nb_screen, vscreen_min_size, vscreen_max_size, sizes) # {}}}
    IN  IF scored = {} THEN {}
        ELSE LET m == MinOf({s[1] : s \in scored})
             IN  UNION {{WithSize(s[2], ax, v) :
                           v \in AxisSizes(s[2], ax, nb_screen, vscreen_min_size,
                                           vscreen_max_size, sizes)} :
                        s \in {t \in scored : t[1] = m}}

\* The points of solutions_set whose objective is least. The objective is
\* the sum of the two axes' parts and the two axes share no constraint, so
\* it is least exactly where both parts are.
least_objective_points(nb_screen, vscreen_min_size, vscreen_max_size, sizes, pa, pb) ==
    LET template == Template(nb_screen, pa, pb)
    IN  {Complete(fx @@ fy, nb_screen, sizes, template) :
            fx \in least_on_axis(X, nb_screen, vscreen_min_size, vscreen_max_size, sizes, template),
            fy \in least_on_axis(Y, nb_screen, vscreen_min_size, vscreen_max_size, sizes, template)}

\* rectangle_packer constructor followed by solve (): the sample point of
\* the lexicographic minimum
packer_solution(nb_screen, vscreen_min_size, vscreen_max_size, sizes, pa, pb) ==
    isl_set_sample_point(
        isl_set_lexmin(
            least_objective_points(nb_screen, vscreen_min_size, vscreen_max_size, sizes, pa, pb),
            v_nb(nb_screen)))

solve(pt) == ~isl_point_is_void(pt)

solution_val(pt, v) == pt.coord[v]
objective(pt) == solution_val(pt, v_objective)
virtual_screen(pt) == pair(solution_val(pt, v_vscreen_size(X)), solution_val(pt, v_vscreen_size(Y)))
packer_screen_positions(pt, nb_screen) ==
    [sc \in 0..(nb_screen - 1) |->
        pair(solution_val(pt, v_screen_pos(nb_screen, sc, X)),
             solution_val(pt, v_screen_pos(nb_screen, sc, Y)))]

\* ------------------------------------------------------------------------
\* compute_screen_layout : the pieces of one loop iteration
\* ------------------------------------------------------------------------
\* std::numeric_limits< long >::max (), as large as TLC's integers go
init == 2147483647

\* compatible reading the entry on the other side of the diagonal
compatible_transposed(constraints, nb_screen, pa, pb) ==
    \A pr \in ScreenPairs(nb_screen) :
        \/ constraints[pr[2]][pr[1]] = none
        \/ constraints[pr[2]][pr[1]] = ordering(pa, pb, pr[1], pr[2])

\* "Compare layout template to user constraints" (lower triangle only)
compatible(constraints, nb_screen, pa, pb) ==
    \A pr \in ScreenPairs(nb_screen) :
        \/ constraints[pr[1]][pr[2]] = none
        \/ constraints[pr[1]][pr[2]] = ordering(pa, pb, pr[1], pr[2])

\* better that also takes a template that is exactly as good
better_or_equal(obj, virtual_screen_size, last_obj, recorded_size) ==
    \/ obj < last_obj
    \/ (obj = last_obj /\ ~pair_less(recorded_size, virtual_screen_size))

\* "Record solution only if better objective (and smaller)"
better(obj, virtual_screen_size, last_obj, recorded_size) ==
    \/ obj < last_obj
    \/ (obj = last_obj /\ pair_less(virtual_screen_size, recorded_size))

\* The recorded solution after the body of one iteration on template (pa, pb)
loop_body(rec, nb_screen, vscreen_min_size, vscreen_max_size, sizes, constraints, pa, pb) ==
    IF ~compatible(constraints, nb_screen, pa, pb) THEN rec
    ELSE LET pt == packer_solution(nb_screen, vscreen_min_size, vscreen_max_size, sizes, pa, pb)
         IN  IF solve(pt) /\ better(objective(pt), virtual_screen(pt),
                                    rec.last_objective, rec.vscreen_size)
             THEN [last_objective |-> objective(pt),
                   vscreen_size |-> virtual_screen(pt),
                   screen_positions |-> packer_screen_positions(pt, nb_screen)]
             ELSE rec

\* The out-parameters as py_func passes them, and last_objective = init
InitialRecord == [last_objective |-> init, vscreen_size |-> pair(0, 0), screen_positions |-> <<>>]

\* One iteration of the do-while loop on template (pa, pb): the body, then
\* seq_pair.next ()
iteration(rec, nb_screen, vscreen_min_size, vscreen_max_size, sizes, constraints, pa, pb) ==
    [rec |-> loop_body(rec, nb_screen, vscreen_min_size, vscreen_max_size, sizes,
                       constraints, pa, pb),
     seq_pair |-> next(pa, pb, nb_screen)]

\* The iterations of the do-while loop from template (pa, pb) up to the
\* one where a wraps around (next () advances b, or ends the loop)
RECURSIVE loop_until_wrap(_, _, _, _, _, _, _, _)
loop_until_wrap(rec, nb_screen, vscreen_min_size, vscreen_max_size, sizes, constraints, pa, pb) ==
    LET it == iteration(rec, nb_screen, vscreen_min_size, vscreen_max_size, sizes,
                        constraints, pa, pb)
    IN  IF it.seq_pair.more /\ it.seq_pair.b = pb
        THEN loop_until_wrap(it.rec, nb_screen, vscreen_min_size, vscreen_max_size, sizes,
                             constraints, it.seq_pair.a, pb)
        ELSE it

\* The do-while loop from template (pa, pb) on, a being sorted: the same
\* iterations in the same order, taken one round of a at a time
RECURSIVE layout_loop(_, _, _, _, _, _, _, _)
layout_loop(rec, nb_screen, vscreen_min_size, vscreen_max_size, sizes, constraints, pa, pb) ==
    LET it == loop_until_wrap(rec, nb_screen, vscreen_min_size, vscreen_max_size, sizes,
                              constraints, pa, pb)
    IN  IF it.seq_pair.more
        THEN layout_loop(it.rec, nb_screen, vscreen_min_size, vscreen_max_size, sizes,
                         constraints, it.seq_pair.a, it.seq_pair.b)
        ELSE it.rec

\* compute_screen_layout as a function of its inputs: the returned flag and
\* the out-parameters
compute_screen_layout(vscreen_min_size, vscreen_max_size, sizes, constraints) ==
    LET nb_screen == Cardinality(DOMAIN sizes)
        rec == layout_loop(InitialRecord, nb_screen, vscreen_min_size, vscreen_max_size,
                           sizes, constraints, Identity(nb_screen), Identity(nb_screen))
    IN  [returned |-> rec.last_objective # init,
         vscreen_size |-> rec.vscreen_size,
         screen_positions |-> rec.screen_positions]

\* ------------------------------------------------------------------------
\* State: one call of compute_screen_layout
\* ------------------------------------------------------------------------
VARIABLES
    vscreen_min_size,   \* input
    vscreen_max_size,   \* input
    screen_sizes,       \* input, a function on 0..nb_screen-1
    user_constraints,   \* input, user_constraints[sa][sb]
    a, b,               \* seq_pair
    last_objective,
    vscreen_size,       \* out-parameter
    screen_positions,   \* out-parameter
    packer,             \* the rectangle_packer of the current iteration
    pc,                 \* position in the loop
    returned,           \* the value returned, once pc = "done"
    tried               \* history: the outcome of every template tried so far

vars == <<vscreen_min_size, vscreen_max_size, screen_sizes, user_constraints, a, b,
          last_objective, vscreen_size, screen_positions, packer, pc, returned, tried>>

nb_screen == Cardinality(DOMAIN screen_sizes)

\* The isl objects a rectangle_packer owns: the context, the local space,
\* the set `solutions` points to and the point `solution` points to
Resources == {"context", "ls", "solutions", "solution"}

\* A rectangle_packer: its two pointer members that change (solutions is
\* "set" or "null", solution is a point or NullPoint), and for each of its
\* isl objects how many times it was allocated and released; misuse holds
\* the releases and uses of an object that is not live.
NoPacker ==
    [alive |-> FALSE, solutions |-> "null", solution |-> NullPoint,
     allocated |-> [r \in Resources |-> 0], released |-> [r \in Resources |-> 0],
     misuse |-> {}]

live(pk, r) == pk.allocated[r] - pk.released[r] >= 1

isl_alloc(pk, r) == [pk EXCEPT !.allocated[r] = @ + 1]

\* isl_*_free, or a function that takes (consumes) its argument
isl_free(pk, r) ==
    [pk EXCEPT !.released[r] = @ + 1,
               !.misuse = IF live(pk, r) THEN @ ELSE @ \cup {<<"released", r>>}]

\* isl_ctx_free : every object of the context must have been released
isl_ctx_free(pk) ==
    LET others == {r \in Resources \ {"context"} : live(pk, r)}
    IN  isl_free([pk EXCEPT !.misuse = @ \cup {<<"outlives context", r>> : r \in others}],
                 "context")

\* init_solver (lines 139-146)
init_solver(pk) ==
    [isl_alloc(isl_alloc(isl_alloc(pk, "context"), "ls"), "solutions")
        EXCEPT !.solutions = "set", !.solution = NullPoint]

\* The constructor: a new object, init_solver, then the constraints, which
\* leave the members pointing to the same live objects
rectangle_packer == [init_solver(NoPacker) EXCEPT !.alive = TRUE]

solve_update_keeps_set(pk, pt) ==
    IF pk.solutions # "null"
    THEN [isl_alloc(isl_free(pk, "solutions"), "solution") EXCEPT !.solution = pt]
    ELSE pk

\* solve (lines 100-106), its effect on the members: isl_set_lexmin takes
\* the set, its sample point pt is a new object, solutions = 0
solve_update(pk, pt) ==
    IF pk.solutions # "null"
    THEN [isl_alloc(isl_free(pk, "solutions"), "solution")
             EXCEPT !.solution = pt, !.solutions = "null"]
    ELSE pk

\* destroy_solver (lines 147-152), called by the destructor; the object is
\* gone afterwards, only the count of its isl objects is kept
destroy_solver(pk) ==
    LET p1 == IF pk.solution # NullPoint THEN isl_free(pk, "solution") ELSE pk
        p2 == IF p1.solutions # "null" THEN isl_free(p1, "solutions") ELSE p1
        p3 == isl_free(p2, "ls")
        p4 == isl_ctx_free(p3)
    IN  [p4 EXCEPT !.alive = FALSE, !.solutions = "null", !.solution = NullPoint]

\* ------------------------------------------------------------------------
\* Inputs that meet the preconditions of the interface
\* ------------------------------------------------------------------------
\* The matrix written by set (a, b, d) for every pair of the lower triangle
SettingFromLower(n, t) ==
    [sa \in 0..(n - 1) |-> [sb \in 0..(n - 1) |->
        IF sa = sb THEN none
        ELSE IF sb < sa THEN t[<<sa, sb>>] ELSE dir_invert(t[<<sb, sa>>])]]

SymmetricSettings(n) == {SettingFromLower(n, t) : t \in [ScreenPairs(n) -> Dirs]}

SizePairs == {pair(w, h) : w \in 1..MaxSize, h \in 1..MaxSize}

SidesTotal(sizes) ==
    SumOver([sc \in DOMAIN sizes |-> sizes[sc].x + sizes[sc].y], DOMAIN sizes)

\* The number of pairs of screens the user constrains
Constrained(n, constraints) ==
    Cardinality({pr \in ScreenPairs(n) : constraints[pr[1]][pr[2]] # none})

\* The weight of an input: the sides of the screens, the sides of the
\* smallest virtual screen, the number of constrained pairs, and what the
\* largest virtual screen is short of MaxVirtual on its two sides.
Weight(n, sizes, constraints, vmin, vmax) ==
    SidesTotal(sizes) + Constrained(n, constraints) + vmin.x + vmin.y
        + (MaxVirtual - vmax.x) + (MaxVirtual - vmax.y)

\* The inputs of the model: up to MaxScreens screens of sides up to
\* MaxSize, a largest virtual screen of sides up to MaxVirtual, a smallest
\* one of sides up to MaxVMin (it may exceed the largest one: nothing in
\* the code refuses that), and a weight of at most MaxTotal.
Init ==
    /\ \E n \in 1..MaxScreens :
        /\ screen_sizes \in {sizes \in [0..(n - 1) -> SizePairs] : SidesTotal(sizes) <= MaxTotal}
        /\ user_constraints \in
              {m \in SymmetricSettings(n) :
                  SidesTotal(screen_sizes) + Constrained(n, m) <= MaxTotal}
        /\ vscreen_min_size \in {pair(w, h) : w \in 0..MaxVMin, h \in 0..MaxVMin}
        /\ vscreen_max_size \in {pair(w, h) : w \in 1..MaxVirtual, h \in 1..MaxVirtual}
        /\ Weight(n, screen_sizes, user_constraints, vscreen_min_size, vscreen_max_size)
              <= MaxTotal
        /\ a = Identity(n)
        /\ b = Identity(n)
    /\ last_objective = InitialRecord.last_objective
    /\ vscreen_size = InitialRecord.vscreen_size
    /\ screen_positions = InitialRecord.screen_positions
    /\ packer = NoPacker
    /\ pc = "check"
    /\ returned = FALSE
    /\ tried = <<>>

\* ------------------------------------------------------------------------
\* Actions: the steps of one loop iteration
\* ------------------------------------------------------------------------
Outcome(ok, pt) ==
    [a |-> a, b |-> b, ok |-> ok, feasible |-> ok /\ solve(pt),
     objective |-> IF ok /\ solve(pt) THEN objective(pt) ELSE 0,
     vscreen_size |-> IF ok /\ solve(pt) THEN virtual_screen(pt) ELSE pair(0, 0),
     screen_positions |-> IF ok /\ solve(pt) THEN packer_screen_positions(pt, nb_screen) ELSE <<>>]

\* lines 224-230: compare the template to the user constraints
CheckTemplate ==
    /\ pc = "check"
    /\ IF compatible(user_constraints, nb_screen, a, b)
       THEN pc' = "pack" /\ tried' = tried
       ELSE pc' = "next" /\ tried' = Append(tried, Outcome(FALSE, VoidPoint))
    /\ UNCHANGED <<vscreen_min_size, vscreen_max_size, screen_sizes, user_constraints, a, b,
                   last_objective, vscreen_size, screen_positions, packer, returned>>

\* lines 232-233: construct the packer for the template and solve it
Pack ==
    /\ pc = "pack"
    /\ packer' = solve_update(rectangle_packer,
                              packer_solution(nb_screen, vscreen_min_size, vscreen_max_size,
                                              screen_sizes, a, b))
    /\ pc' = "record"
    /\ UNCHANGED <<vscreen_min_size, vscreen_max_size, screen_sizes, user_constraints, a, b,
                   last_objective, vscreen_size, screen_positions, returned, tried>>

\* lines 233-244: record the solution if it is better; the packer goes out
\* of scope
Record ==
    /\ pc = "record"
    /\ IF /\ solve(packer.solution)
          /\ better(objective(packer.solution), virtual_screen(packer.solution),
                    last_objective, vscreen_size)
       THEN /\ last_objective' = objective(packer.solution)
            /\ vscreen_size' = virtual_screen(packer.solution)
            /\ screen_positions' = packer_screen_positions(packer.solution, nb_screen)
       ELSE UNCHANGED <<last_objective, vscreen_size, screen_positions>>
    /\ tried' = Append(tried, Outcome(TRUE, packer.solution))
    /\ packer' = destroy_solver(packer)
    /\ pc' = "next"
    /\ UNCHANGED <<vscreen_min_size, vscreen_max_size, screen_sizes, user_constraints, a, b,
                   returned>>

\* lines 245-246: while (seq_pair.next ()); return last_objective != init
Advance ==
    /\ pc = "next"
    /\ LET nx == next(a, b, nb_screen)
       IN  /\ a' = nx.a
           /\ b' = nx.b
           /\ IF nx.more
              THEN pc' = "check" /\ returned' = returned
              ELSE pc' = "done" /\ returned' = (last_objective # init)
    /\ UNCHANGED <<vscreen_min_size, vscreen_max_size, screen_sizes, user_constraints,
                   last_objective, vscreen_size, screen_positions, packer, tried>>

Next == CheckTemplate \/ Pack \/ Record \/ Advance

Spec == Init /\ [][Next]_vars

\* The same program on the inputs of weight up to MaxRelabelTotal, for the
\* properties that lay the input out again once for each transposition of
\* two screens.
InitRelabel ==
    /\ Init
    /\ Weight(nb_screen, screen_sizes, user_constraints, vscreen_min_size, vscreen_max_size)
          <= MaxRelabelTotal

SpecRelabel == InitRelabel /\ [][Next]_vars

\* The same program on the inputs for which the packer's whole constraint
\* set, distance variables included, is small enough to enumerate: the
\* sides of the screens and of the two virtual screen bounds and the
\* number of constrained pairs add up to MaxPackerTotal at most.
PackerWeight(n, sizes, constraints, vmin, vmax) ==
    SidesTotal(sizes) + Constrained(n, constraints) + vmin.x + vmin.y + vmax.x + vmax.y

InitPacker ==
    /\ \E n \in 1..MaxScreens :
        /\ screen_sizes \in {sizes \in [0..(n - 1) -> SizePairs] :
                                SidesTotal(sizes) <= MaxPackerTotal}
        /\ user_constraints \in
              {m \in SymmetricSettings(n) :
                  SidesTotal(screen_sizes) + Constrained(n, m) <= MaxPackerTotal}
        /\ vscreen_min_size \in {pair(w, h) : w \in 0..MaxVMin, h \in 0..MaxVMin}
        /\ vscreen_max_size \in {pair(w, h) : w \in 1..MaxVirtual, h \in 1..MaxVirtual}
        /\ PackerWeight(n, screen_sizes, user_constraints, vscreen_min_size, vscreen_max_size)
              <= MaxPackerTotal
        /\ a = Identity(n)
        /\ b = Identity(n)
    /\ last_objective = InitialRecord.last_objective
    /\ vscreen_size = InitialRecord.vscreen_size
    /\ screen_positions = InitialRecord.screen_positions
    /\ packer = NoPacker
    /\ pc = "check"
    /\ returned = FALSE
    /\ tried = <<>>

SpecPacker == InitPacker /\ [][Next]_vars

\* The same program on the inputs whose pairs of screens may all be
\* constrained: the sides of the screens, the sides of the smallest virtual
\* screen and what the largest one is short of MaxVirtual add up to
\* MaxConstrainedTotal at most.
InitConstrained ==
    /\ \E n \in 1..MaxScreens :
        /\ screen_sizes \in {sizes \in [0..(n - 1) -> SizePairs] :
                                SidesTotal(sizes) <= MaxConstrainedTotal}
        /\ user_constraints \in SymmetricSettings(n)
        /\ vscreen_min_size \in {pair(w, h) : w \in 0..MaxVMin, h \in 0..MaxVMin}
        /\ vscreen_max_size \in {pair(w, h) : w \in 1..MaxVirtual, h \in 1..MaxVirtual}
        /\ Weight(n, screen_sizes, mk_setting(n), vscreen_min_size, vscreen_max_size)
              <= MaxConstrainedTotal
        /\ a = Identity(n)
        /\ b = Identity(n)
    /\ last_objective = InitialRecord.last_objective
    /\ vscreen_size = InitialRecord.vscreen_size
    /\ screen_positions = InitialRecord.screen_positions
    /\ packer = NoPacker
    /\ pc = "check"
    /\ returned = FALSE
    /\ tried = <<>>

SpecConstrained == InitConstrained /\ [][Next]_vars

\* ------------------------------------------------------------------------
\* A rectangle_packer used on its own: constructed for some template, solve
\* called any number of times up to MaxSolveCalls, then destroyed. tried
\* logs what each call of solve returned and left in solution.
\* ------------------------------------------------------------------------
\* The permutations of 0..n-1
Perms(n) == {f \in [0..(n - 1) -> 0..(n - 1)] : \A i, j \in 0..(n - 1) : i # j => f[i] # f[j]}

InitClient ==
    /\ \E n \in 1..MaxScreens :
        /\ screen_sizes \in {sizes \in [0..(n - 1) -> SizePairs] :
                                SidesTotal(sizes) <= MaxRelabelTotal}
        /\ user_constraints = mk_setting(n)
        /\ vscreen_min_size \in {pair(w, h) : w \in 0..MaxVMin, h \in 0..MaxVMin}
        /\ vscreen_max_size \in {pair(w, h) : w \in 1..MaxVirtual, h \in 1..MaxVirtual}
        /\ Weight(n, screen_sizes, user_constraints, vscreen_min_size, vscreen_max_size)
              <= MaxRelabelTotal
        /\ a \in Perms(n)
        /\ b \in Perms(n)
    /\ last_objective = InitialRecord.last_objective
    /\ vscreen_size = InitialRecord.vscreen_size
    /\ screen_positions = InitialRecord.screen_positions
    /\ packer = NoPacker
    /\ pc = "client"
    /\ returned = FALSE
    /\ tried = <<>>

\* rectangle_packer packer (nb_screen, ..., seq_pair)
Construct ==
    /\ pc = "client"
    /\ packer' = rectangle_packer
    /\ pc' = "constructed"
    /\ UNCHANGED <<vscreen_min_size, vscreen_max_size, screen_sizes, user_constraints, a, b,
                   last_objective, vscreen_size, screen_positions, returned, tried>>

\* packer.solve ()
Solve ==
    /\ pc = "constructed"
    /\ Len(tried) < MaxSolveCalls
    /\ LET pk == solve_update(packer,
                              packer_solution(nb_screen, vscreen_min_size, vscreen_max_size,
                                              screen_sizes, a, b))
       IN  /\ packer' = pk
           /\ tried' = Append(tried, [returned |-> solve(pk.solution), solution |-> pk.solution])
    /\ UNCHANGED <<vscreen_min_size, vscreen_max_size, screen_sizes, user_constraints, a, b,
                   last_objective, vscreen_size, screen_positions, pc, returned>>

\* ~rectangle_packer ()
Destroy ==
    /\ pc = "constructed"
    /\ packer' = destroy_solver(packer)
    /\ pc' = "destroyed"
    /\ UNCHANGED <<vscreen_min_size, vscreen_max_size, screen_sizes, user_constraints, a, b,
                   last_objective, vscreen_size, screen_positions, returned, tried>>

\* The packers of compute_screen_layout and the packer used on its own
InitLifecycle == InitRelabel \/ InitClient

NextLifecycle == Next \/ Construct \/ Solve \/ Destroy

SpecLifecycle == InitLifecycle /\ [][NextLifecycle]_vars

\* ------------------------------------------------------------------------
\* The Python binding (boost_wrapper.cpp)
\* ------------------------------------------------------------------------
\* lines 52-57: the matrix handed to the core is mk_setting (nb_screen)
\* overwritten by the entries of the Python matrix that fall inside it,
\* each taken as an int
py_constraints_setting(nb, py_constraints) ==
    [i \in 0..(nb - 1) |-> [j \in 0..(nb - 1) |->
        IF i \in DOMAIN py_constraints /\ j \in DOMAIN py_constraints[i]
        THEN py_constraints[i][j]
        ELSE mk_setting(nb)[i][j]]]

\* lines 61-68: None when the core returns false, otherwise the tuple of
\* the virtual screen size and the list of the positions
py_return(r) ==
    IF ~r.returned
    THEN [kind |-> "None", screen_size |-> pair(0, 0), screen_pos |-> <<>>]
    ELSE [kind |-> "tuple", screen_size |-> r.vscreen_size, screen_pos |-> r.screen_positions]

\* lines 44-69
py_func(py_screen_min_size, py_screen_max_size, py_screen_sizes, py_constraints) ==
    py_return(compute_screen_layout(py_screen_min_size, py_screen_max_size, py_screen_sizes,
                  py_constraints_setting(Cardinality(DOMAIN py_screen_sizes), py_constraints)))

\* What py_func returns to Python once the call of the core is over
PyResult ==
    py_return([returned |-> returned, vscreen_size |-> vscreen_size,
               screen_positions |-> screen_positions])

\* The arguments a Python caller may pass: up to MaxBindingScreens screens
\* of sides 0..MaxBindingSize, any matrix of integers 0..MaxDirValue with
\* a diagonal of none, the rows of which may be one entry short, a
\* smallest virtual screen that may exceed the largest one.
PyMatrices(n) ==
    UNION {{m \in [0..(n - 1) -> [0..(k - 1) -> 0..MaxDirValue]] :
               \A i \in 0..(n - 1) : i \in DOMAIN m[i] => m[i][i] = none} :
           k \in (n - 1)..n}

InitBinding ==
    /\ \E n \in 1..MaxBindingScreens :
        /\ screen_sizes \in [0..(n - 1) -> {pair(w, h) : w \in 0..MaxBindingSize,
                                                         h \in 0..MaxBindingSize}]
        /\ \E py_constraints \in PyMatrices(n) :
              user_constraints = py_constraints_setting(n, py_constraints)
        /\ vscreen_min_size \in {pair(0, 0), pair(MaxVMin, 0)}
        /\ vscreen_max_size \in {pair(1, 1), pair(MaxVirtual, MaxVirtual)}
        /\ a = Identity(n)
        /\ b = Identity(n)
    /\ last_objective = InitialRecord.last_objective
    /\ vscreen_size = InitialRecord.vscreen_size
    /\ screen_positions = InitialRecord.screen_positions
    /\ packer = NoPacker
    /\ pc = "check"
    /\ returned = FALSE
    /\ tried = <<>>

SpecBinding == InitBinding /\ [][Next]_vars

\* ------------------------------------------------------------------------
\* The packer's solution is the lexicographic minimum of the whole set:
\* least_objective_points only saves enumerating the points that cannot be
\* the minimum.
\* ------------------------------------------------------------------------
PackerSolutionIsLexmin ==
    pc = "record" =>
        packer.solution =
            isl_set_sample_point(
                isl_set_lexmin(
                    solutions_set(nb_screen, vscreen_min_size, vscreen_max_size,
                                  screen_sizes, a, b),
                    v_nb(nb_screen)))

\* compute_screen_layout as a function agrees with the run of the loop,
\* step by step, on the same input.
LayoutFunctionIsRun ==
    pc = "done" =>
        compute_screen_layout(vscreen_min_size, vscreen_max_size, screen_sizes, user_constraints)
            = [returned |-> returned, vscreen_size |-> vscreen_size,
               screen_positions |-> screen_positions]

\* ------------------------------------------------------------------------
\* Vocabulary of the properties
\* ------------------------------------------------------------------------
Screens == 0..(nb_screen - 1)

Done == pc = "done"
Success == pc = "done" /\ returned

\* The inequality a direction d stands for, for the ordered pair (sa, sb)
Satisfies(pos, sizes, d, sa, sb) ==
    CASE d = left -> pos[sa].x + sizes[sa].x <= pos[sb].x
      [] d = right -> pos[sb].x + sizes[sb].x <= pos[sa].x
      [] d = above -> pos[sa].y + sizes[sa].y <= pos[sb].y
      [] d = under -> pos[sb].y + sizes[sb].y <= pos[sa].y
      [] OTHER -> TRUE

\* The points of the half-open rectangle of screen sc
Rectangle(pos, sizes, sc) ==
    (pos[sc].x..(pos[sc].x + sizes[sc].x - 1)) \X (pos[sc].y..(pos[sc].y + sizes[sc].y - 1))

Factorial(n) == Cardinality(Perms(n))

MaxOf2(m, k) == IF m >= k THEN m ELSE k

\* The templates tried so far that were compatible and feasible
FeasibleTried == {k \in 1..Len(tried) : tried[k].feasible}

\* tried[k] is at least as good as tried[j]: lower objective, then smaller
\* virtual screen (width first), then enumerated first
Beats(k, j) ==
    \/ tried[k].objective < tried[j].objective
    \/ /\ tried[k].objective = tried[j].objective
       /\ pair_less(tried[k].vscreen_size, tried[j].vscreen_size)
    \/ /\ tried[k].objective = tried[j].objective
       /\ tried[k].vscreen_size = tried[j].vscreen_size
       /\ k <= j

BestTried == CHOOSE k \in FeasibleTried : \A j \in FeasibleTried : Beats(k, j)

\* ------------------------------------------------------------------------
\* C1. Non-overlap: when compute_screen_layout returns true, the half-open
\* rectangles of any two distinct screens have no point in common.
\* ------------------------------------------------------------------------
C1_NonOverlap ==
    Success =>
        \A i, j \in Screens :
            i # j => Rectangle(screen_positions, screen_sizes, i)
                     \cap Rectangle(screen_positions, screen_sizes, j) = {}

\* Three screens laid out in a 2 x 2 virtual screen: two of them only touch
\* at a corner.
C1_Witness ==
    /\ Success
    /\ nb_screen = 3
    /\ vscreen_size = pair(2, 2)

\* ------------------------------------------------------------------------
\* C2. Constraint compliance: when compute_screen_layout returns true, every
\* constrained ordered pair (sa, sb), above or below the diagonal, has the
\* inequality of its direction satisfied by the returned positions.
\* ------------------------------------------------------------------------
C2_ConstraintCompliance ==
    Success =>
        \A sa, sb \in Screens :
            (sa # sb /\ user_constraints[sa][sb] # none) =>
                Satisfies(screen_positions, screen_sizes, user_constraints[sa][sb], sa, sb)

C2_Witness ==
    /\ Success
    /\ nb_screen = 3
    /\ user_constraints[0][2] = above
    /\ user_constraints[2][0] = under

\* ------------------------------------------------------------------------
\* C3. Selection and tie-break: after every iteration the recorded
\* objective, virtual screen size and positions are those of the feasible
\* template tried so far with the lowest objective, then the smallest
\* virtual screen (width first, then height), then the earliest; nothing is
\* recorded while no template was feasible; at loop exit the templates tried
\* are all the (n!)^2 pairs of permutations, each once.
\* ------------------------------------------------------------------------
C3_Selection ==
    /\ pc \in {"check", "done"} =>
          IF FeasibleTried = {}
          THEN /\ last_objective = init
               /\ vscreen_size = InitialRecord.vscreen_size
               /\ screen_positions = InitialRecord.screen_positions
          ELSE /\ last_objective = tried[BestTried].objective
               /\ vscreen_size = tried[BestTried].vscreen_size
               /\ screen_positions = tried[BestTried].screen_positions
    /\ Done =>
          /\ Len(tried) = Factorial(nb_screen) * Factorial(nb_screen)
          /\ {<<tried[k].a, tried[k].b>> : k \in 1..Len(tried)}
                = Perms(nb_screen) \X Perms(nb_screen)

\* The loop is over and two feasible templates tie with the recorded
\* objective and virtual screen size: the positions are the earlier one's.
C3_Witness ==
    /\ Done
    /\ \E j, k \in FeasibleTried :
          /\ j < k
          /\ tried[j].objective = last_objective
          /\ tried[k].objective = last_objective
          /\ tried[j].vscreen_size = vscreen_size
          /\ tried[k].vscreen_size = vscreen_size
          /\ tried[j].screen_positions = screen_positions
          /\ tried[k].screen_positions # screen_positions
    /\ \E j \in FeasibleTried :
          /\ tried[j].objective = last_objective
          /\ pair_less(vscreen_size, tried[j].vscreen_size)

\* ------------------------------------------------------------------------
\* C4. Infeasibility outcome: compute_screen_layout returns false exactly
\* when no pair of permutations is both compatible with the user
\* constraints and feasible for the packer; when it returns true it gives
\* one position for each screen.
\* ------------------------------------------------------------------------
SomeTemplateFits ==
    \E pa \in Perms(nb_screen), pb \in Perms(nb_screen) :
        /\ compatible(user_constraints, nb_screen, pa, pb)
        /\ solve(packer_solution(nb_screen, vscreen_min_size, vscreen_max_size,
                                 screen_sizes, pa, pb))

\* C4: the return value is true exactly when some template fits, and a
\* true return gives every screen a position.
C4_Infeasibility ==
    Done =>
        /\ returned <=> SomeTemplateFits
        /\ returned => DOMAIN screen_positions = Screens

\* A call that returns false although some templates were compatible.
C4_Witness ==
    /\ Done
    /\ ~returned
    /\ \E k \in 1..Len(tried) : tried[k].ok

\* ------------------------------------------------------------------------
\* C5. Containment and bounds: when compute_screen_layout returns true,
\* every screen lies inside the virtual screen and the virtual screen size
\* lies between vscreen_min_size and vscreen_max_size on both axes.
\* ------------------------------------------------------------------------
C5_ContainmentAndBounds ==
    Success =>
        /\ \A i \in Screens :
              /\ 0 <= screen_positions[i].x
              /\ screen_positions[i].x + screen_sizes[i].x <= vscreen_size.x
              /\ 0 <= screen_positions[i].y
              /\ screen_positions[i].y + screen_sizes[i].y <= vscreen_size.y
        /\ vscreen_min_size.x <= vscreen_size.x
        /\ vscreen_size.x <= vscreen_max_size.x
        /\ vscreen_min_size.y <= vscreen_size.y
        /\ vscreen_size.y <= vscreen_max_size.y

\* The smallest virtual screen is wider than the screens need: the lower
\* bound decides the width.
C5_Witness ==
    /\ Success
    /\ nb_screen = 2
    /\ vscreen_size.x = vscreen_min_size.x
    /\ \A i \in Screens : screen_positions[i].x + screen_sizes[i].x < vscreen_size.x

\* ------------------------------------------------------------------------
\* C6. Relabelling: for every transposition t of two screen indices, the
\* layout of the relabelled input (sizes'[t(i)] = sizes[i],
\* constraints'[t(i)][t(j)] = constraints[i][j]) has the same outcome and,
\* when there is one, the same virtual screen size.
\* ------------------------------------------------------------------------
Transpositions(n) == {t \in Perms(n) : Cardinality({i \in 0..(n - 1) : t[i] # i}) = 2}

\* t is its own inverse: the entry that lands on index j comes from t[j]
RelabelledSizes(t) == [j \in Screens |-> screen_sizes[t[j]]]
RelabelledConstraints(t) == [i \in Screens |-> [j \in Screens |-> user_constraints[t[i]][t[j]]]]

RelabelledLayout(t) ==
    compute_screen_layout(vscreen_min_size, vscreen_max_size,
                          RelabelledSizes(t), RelabelledConstraints(t))

\* C6: every transposed input has the same outcome and virtual screen size.
C6_RelabelledOutcome ==
    Done =>
        \A t \in Transpositions(nb_screen) :
            LET r == RelabelledLayout(t)
            IN  /\ r.returned = returned
                /\ returned => r.vscreen_size = vscreen_size

\* Three screens and a layout found; for some transposition the relabelled
\* layout has the same virtual screen but not the permuted positions.
C6_Witness ==
    /\ Success
    /\ nb_screen = 3
    /\ \E t \in Transpositions(nb_screen) :
          /\ RelabelledLayout(t).vscreen_size = vscreen_size
          /\ \E i \in Screens : RelabelledLayout(t).screen_positions[t[i]] # screen_positions[i]

\* C6 as the specification states it: the positions of the relabelled
\* layout are the same permutation of the original positions.
C6_PermutedPositions ==
    Done =>
        \A t \in Transpositions(nb_screen) :
            LET r == RelabelledLayout(t)
            IN  /\ r.returned = returned
                /\ returned =>
                      /\ r.vscreen_size = vscreen_size
                      /\ \A i \in Screens : r.screen_positions[t[i]] = screen_positions[i]

\* ------------------------------------------------------------------------
\* C7. Round trip: when the layout returns a result, running it again with
\* every pair constrained to the direction the selected template gives it
\* returns the same virtual screen size and positions; that matrix keeps
\* the original constraints and is satisfied by the returned positions, and
\* it is the only such matrix when no pair of returned positions satisfies
\* more than one direction.
\* ------------------------------------------------------------------------
\* The constraint matrices that give every pair a direction the returned
\* positions satisfy, keep the original entries and are symmetric under
\* dir_invert
Completions ==
    {SettingFromLower(nb_screen, t) : t \in
        {t \in [ScreenPairs(nb_screen) -> Dirs \ {none}] :
            \A pr \in ScreenPairs(nb_screen) :
                /\ Satisfies(screen_positions, screen_sizes, t[pr], pr[1], pr[2])
                /\ Satisfies(screen_positions, screen_sizes, dir_invert(t[pr]), pr[2], pr[1])
                /\ user_constraints[pr[1]][pr[2]] \in {none, t[pr]}
                /\ user_constraints[pr[2]][pr[1]] \in {none, dir_invert(t[pr])}}}

RoundTripOk(m) ==
    LET r == compute_screen_layout(vscreen_min_size, vscreen_max_size, screen_sizes, m)
    IN  /\ r.returned
        /\ r.vscreen_size = vscreen_size
        /\ r.screen_positions = screen_positions

\* The matrix of the directions of the template (pa, pb)
TemplateSetting(pa, pb) ==
    [i \in Screens |-> [j \in Screens |-> IF i = j THEN none ELSE ordering(pa, pb, i, j)]]

SelectedSetting == TemplateSetting(tried[BestTried].a, tried[BestTried].b)

OneDirectionPerPair ==
    \A pr \in ScreenPairs(nb_screen) :
        Cardinality({d \in Dirs \ {none} :
            Satisfies(screen_positions, screen_sizes, d, pr[1], pr[2])}) = 1

\* C7: the completion by the selected template reproduces the result, and
\* is the only completion when each pair satisfies one direction only.
C7_RoundTripSelected ==
    Success =>
        /\ SelectedSetting \in Completions
        /\ RoundTripOk(SelectedSetting)
        /\ OneDirectionPerPair => Completions = {SelectedSetting}

\* Three screens, an unconstrained pair, and returned positions that
\* satisfy two directions for some pair: there are several completions.
C7_Witness ==
    /\ Success
    /\ nb_screen = 3
    /\ \E pr \in ScreenPairs(nb_screen) : user_constraints[pr[1]][pr[2]] = none
    /\ Cardinality(Completions) > 1

\* C7 as the specification states it: every completion reproduces the
\* result.
C7_RoundTripEvery ==
    Success => \A m \in Completions : RoundTripOk(m)

\* ------------------------------------------------------------------------
\* C8. Two screens, screen 0 left of screen 1, no minimum and room enough:
\* the virtual screen is (w0 + w1, max(h0, h1)), screen 0 is at x = 0 and
\* screen 1 at x = w0, the taller screen is at y = 0 and the shorter one at
\* y = |h0 - h1| / 2 (integer division).
\* ------------------------------------------------------------------------
C8_Case ==
    /\ nb_screen = 2
    /\ user_constraints[0][1] = left
    /\ user_constraints[1][0] = right
    /\ vscreen_min_size = pair(0, 0)
    /\ vscreen_max_size.x >= screen_sizes[0].x + screen_sizes[1].x
    /\ vscreen_max_size.y >= MaxOf2(screen_sizes[0].y, screen_sizes[1].y)

\* C8: the row, screen 0 first, the shorter screen centred on the taller.
C8_TwoScreensLeft ==
    (Done /\ C8_Case) =>
        LET taller == IF screen_sizes[0].y >= screen_sizes[1].y THEN 0 ELSE 1
            shorter == 1 - taller
        IN  /\ returned
            /\ vscreen_size = pair(screen_sizes[0].x + screen_sizes[1].x,
                                   MaxOf2(screen_sizes[0].y, screen_sizes[1].y))
            /\ screen_positions[0].x = 0
            /\ screen_positions[1].x = screen_sizes[0].x
            /\ screen_positions[taller].y = 0
            /\ screen_positions[shorter].y =
                  (screen_sizes[taller].y - screen_sizes[shorter].y) \div 2

\* Screen 1 is taller than screen 0 by two: screen 0 is set one down.
C8_Witness ==
    /\ Done
    /\ C8_Case
    /\ screen_sizes[1].y = screen_sizes[0].y + 2
    /\ screen_positions[0].y = 1

\* ------------------------------------------------------------------------
\* C9. Two screens of the same square size s x s, no constraint, no minimum
\* and room for 2s on both axes: the layout is the column, virtual screen
\* (s, 2s), with screen 1 at the origin and screen 0 at (0, s).
\* ------------------------------------------------------------------------
C9_Case ==
    /\ nb_screen = 2
    /\ screen_sizes[0] = screen_sizes[1]
    /\ screen_sizes[0].x = screen_sizes[0].y
    /\ user_constraints = mk_setting(2)
    /\ vscreen_min_size = pair(0, 0)
    /\ vscreen_max_size.x >= 2 * screen_sizes[0].x
    /\ vscreen_max_size.y >= 2 * screen_sizes[0].x

\* C9: the column (s, 2s) with screen 1 at (0, 0) and screen 0 at (0, s).
C9_ColumnScreenOneFirst ==
    (Done /\ C9_Case) =>
        LET s == screen_sizes[0].x
        IN  /\ returned
            /\ vscreen_size = pair(s, 2 * s)
            /\ screen_positions[0] = pair(0, s)
            /\ screen_positions[1] = pair(0, 0)

\* The column of the second template tried ties with the row of the first
\* on the objective and replaces it.
C9_Witness ==
    /\ Done
    /\ C9_Case
    /\ tried[2].objective = tried[1].objective
    /\ pair_less(tried[2].vscreen_size, tried[1].vscreen_size)
    /\ screen_positions = tried[2].screen_positions

\* C9 as the specification states it: the row or the column, with screen 0
\* at the origin.
C9_ScreenZeroAtOrigin ==
    (Done /\ C9_Case) =>
        LET s == screen_sizes[0].x
        IN  /\ returned
            /\ \/ /\ vscreen_size = pair(2 * s, s)
                  /\ screen_positions[0] = pair(0, 0)
                  /\ screen_positions[1] = pair(s, 0)
               \/ /\ vscreen_size = pair(s, 2 * s)
                  /\ screen_positions[0] = pair(0, 0)
                  /\ screen_positions[1] = pair(0, s)

\* ------------------------------------------------------------------------
\* C10. One screen that fits the largest virtual screen: exactly one
\* template is tried, the screen is at (0, 0), the virtual screen is the
\* larger of vscreen_min_size and the screen size on each axis, and the
\* objective of the solution is 0.
\* ------------------------------------------------------------------------
C10_Case ==
    /\ nb_screen = 1
    /\ vscreen_min_size.x <= vscreen_max_size.x
    /\ vscreen_min_size.y <= vscreen_max_size.y
    /\ screen_sizes[0].x <= vscreen_max_size.x
    /\ screen_sizes[0].y <= vscreen_max_size.y

\* C10: one template, position (0, 0), the larger of minimum and screen
\* size, objective 0.
C10_SingleScreen ==
    (Done /\ C10_Case) =>
        /\ returned
        /\ Len(tried) = 1
        /\ tried[1].feasible
        /\ tried[1].objective = 0
        /\ last_objective = 0
        /\ screen_positions[0] = pair(0, 0)
        /\ vscreen_size = pair(MaxOf2(vscreen_min_size.x, screen_sizes[0].x),
                               MaxOf2(vscreen_min_size.y, screen_sizes[0].y))

\* The minimum decides the width and the screen decides the height.
C10_Witness ==
    /\ Done
    /\ C10_Case
    /\ vscreen_min_size.x > screen_sizes[0].x
    /\ vscreen_min_size.y < screen_sizes[0].y

\* ------------------------------------------------------------------------
\* Invalid input at the binding
\* ------------------------------------------------------------------------
NotSymmetric ==
    \E sa, sb \in Screens :
        sa # sb /\ user_constraints[sa][sb] # dir_invert(user_constraints[sb][sa])

NonPositiveSize == \E sc \in Screens : screen_sizes[sc].x <= 0 \/ screen_sizes[sc].y <= 0

InvertedBounds ==
    vscreen_min_size.x > vscreen_max_size.x \/ vscreen_min_size.y > vscreen_max_size.y

DirOutOfRange == \E sa, sb \in Screens : user_constraints[sa][sb] \notin Dirs

InvalidInput == NotSymmetric \/ NonPositiveSize \/ InvertedBounds \/ DirOutOfRange

\* C11: a call through py_func with a constraint matrix that is not
\* symmetric under invert, a non-positive screen size, vmin > vmax on an
\* axis or a direction value outside 0..4 ends in an invalid-argument
\* failure, never in a layout and never in None.
C11_InvalidInputRejected ==
    (Done /\ InvalidInput) => PyResult.kind = "invalid-argument"

\* ------------------------------------------------------------------------
\* The enumeration of the sequence pairs
\* ------------------------------------------------------------------------
LexLess(p, q) ==
    \E i \in DOMAIN p : p[i] < q[i] /\ \A j \in DOMAIN p : j < i => p[j] = q[j]

\* The permutations of 0..n-1 by their rank in the lexicographic order
LexPerms(n) ==
    LET ps == Perms(n)
    IN  [r \in 0..(Cardinality(ps) - 1) |->
            CHOOSE p \in ps : Cardinality({q \in ps : LexLess(q, p)}) = r]

\* C12: starting from a = b = identity the loop visits every ordered pair
\* (a, b) of permutations exactly once, a stepping through the
\* permutations in lexicographic order and b stepping once each time a
\* wraps to the identity; next returns false exactly at the step that
\* brings both back to the identity, after (n!)^2 iterations; a and b are
\* permutations of 0..n-1 in every reachable state.
C12_Enumeration ==
    LET lex == LexPerms(nb_screen)
        f == Cardinality(DOMAIN lex)
        visited == Len(tried)
    IN  /\ a \in Perms(nb_screen)
        /\ b \in Perms(nb_screen)
        /\ visited <= f * f
        /\ \A k \in 1..visited :
              /\ tried[k].a = lex[(k - 1) % f]
              /\ tried[k].b = lex[(k - 1) \div f]
        /\ pc \in {"check", "pack", "record"} =>
              /\ visited < f * f
              /\ a = lex[visited % f]
              /\ b = lex[visited \div f]
        /\ pc = "next" => visited > 0 /\ a = tried[visited].a /\ b = tried[visited].b
        /\ Done <=> (visited = f * f /\ pc # "next")
        /\ Done => a = Identity(nb_screen) /\ b = Identity(nb_screen)

C12_Witness ==
    /\ Done
    /\ nb_screen = 3
    /\ Len(tried) = 36
    /\ tried[6].a = [i \in 0..2 |-> 2 - i] /\ tried[6].b = Identity(3)
    /\ tried[7].a = Identity(3) /\ tried[7].b = (0 :> 0 @@ 1 :> 2 @@ 2 :> 1)

\* ------------------------------------------------------------------------
\* The direction a sequence pair induces
\* ------------------------------------------------------------------------
\* C13: for two distinct screens ordering (sa, sb) is never none and is
\* given by the signs of a[sb] - a[sa] and b[sb] - b[sa]: (+, +) left,
\* (+, -) above, (-, +) under, (-, -) right; ordering (sa, sb) is
\* dir_invert (ordering (sb, sa)); the packer's constructor never throws
\* "unordered screens despite sequence pair".
C13_InducedDirection ==
    /\ \A sa, sb \in Screens :
          sa # sb =>
              LET da == a[sb] - a[sa]
                  db == b[sb] - b[sa]
                  d == ordering(a, b, sa, sb)
              IN  /\ da # 0 /\ db # 0
                  /\ d # none
                  /\ (da > 0 /\ db > 0) => d = left
                  /\ (da > 0 /\ db < 0) => d = above
                  /\ (da < 0 /\ db > 0) => d = under
                  /\ (da < 0 /\ db < 0) => d = right
                  /\ d = dir_invert(ordering(a, b, sb, sa))
    /\ ~unordered_screens(nb_screen, a, b)

C13_Witness ==
    /\ pc = "record"
    /\ nb_screen = 3
    /\ {ordering(a, b, pr[1], pr[2]) : pr \in ScreenPairs(nb_screen)} = {left, above, under}
    /\ {ordering(a, b, pr[2], pr[1]) : pr \in ScreenPairs(nb_screen)} = {right, under, above}

\* ------------------------------------------------------------------------
\* The three inversion functions
\* ------------------------------------------------------------------------
\* The directions that occur in the constraint matrix of the call
UsedDirs == {user_constraints[sa][sb] : sa, sb \in Screens}

InvertsAsSpecified(inv(_), enc, l, r, ab, be, no) ==
    /\ inv(l) = r /\ inv(r) = l
    /\ inv(ab) = be /\ inv(be) = ab
    /\ inv(no) = no
    /\ \A d \in enc : inv(inv(d)) = d

\* C14: dir_invert, invert_dir and relation_reverse_dir each map, on their
\* own encoding, left to right, right to left, above to below, below to
\* above and none to none, and each is an involution.
C14_Inversions ==
    /\ UsedDirs \subseteq Dirs
    /\ InvertsAsSpecified(dir_invert, Dirs, left, right, above, under, none)
    /\ InvertsAsSpecified(invert_dir, Dirs, left, right, above, under, none)
    /\ InvertsAsSpecified(relation_reverse_dir, RelationDirs,
                          C_LEFT_OF, C_RIGHT_OF, C_ABOVE, C_BELOW, C_NONE)

\* ------------------------------------------------------------------------
\* The packer's solution
\* ------------------------------------------------------------------------
\* The variables in the order of the claim: o, H, W, Y_0.., X_0.., D_0..
ClaimedOrder ==
    <<v_objective, v_vscreen_size(Y), v_vscreen_size(X)>>
        \o [i \in 1..nb_screen |-> v_screen_pos(nb_screen, i - 1, Y)]
        \o [i \in 1..nb_screen |-> v_screen_pos(nb_screen, i - 1, X)]
        \o [i \in 1..max_var_nb(nb_screen) |-> v_max_var(nb_screen, i - 1)]

LexLeq(p, q, order) ==
    \/ \A i \in DOMAIN order : p[order[i]] = q[order[i]]
    \/ \E i \in DOMAIN order :
          /\ p[order[i]] < q[order[i]]
          /\ \A j \in DOMAIN order : j < i => p[order[j]] = q[order[j]]

PackerSet ==
    solutions_upto(nb_screen, vscreen_min_size, vscreen_max_size, screen_sizes, a, b)

\* C15: solve returns false exactly when the packer's integer set is
\* empty; otherwise the solution is the point of the set that is least in
\* the lexicographic order of (o, H, W, Y_0.., X_0.., D_0..), which is the
\* order of the variables in the set: least objective, then least height,
\* then least width, then the Y positions before the X positions.
C15_SolveIsLexmin ==
    pc = "record" =>
        LET S == PackerSet
            p == packer.solution
        IN  /\ ClaimedOrder = [i \in 1..v_nb(nb_screen) |-> i - 1]
            /\ solve(p) <=> S # {}
            /\ solve(p) =>
                  /\ p.coord \in S
                  /\ \A q \in S : LexLeq(p.coord, q, ClaimedOrder)
                  /\ \A q \in S : objective(p) <= q[v_objective]
                  /\ \A q \in S : q[v_objective] = objective(p) =>
                        virtual_screen(p).y <= q[v_vscreen_size(Y)]
                  /\ \A q \in S :
                        (/\ q[v_objective] = objective(p)
                         /\ q[v_vscreen_size(Y)] = virtual_screen(p).y) =>
                            virtual_screen(p).x <= q[v_vscreen_size(X)]

\* A solved packer of two screens or more whose set holds a point with a
\* larger objective, and a point with the objective, the height and the
\* width of the solution that differs from it in the positions
C15_Witness ==
    /\ pc = "record"
    /\ solve(packer.solution)
    /\ nb_screen >= 2
    /\ \E q \in PackerSet : q[v_objective] > objective(packer.solution)
    /\ \E q \in PackerSet :
          /\ q # packer.solution.coord
          /\ \A v \in {v_objective, v_vscreen_size(Y), v_vscreen_size(X)} :
                q[v] = packer.solution.coord[v]

\* ------------------------------------------------------------------------
\* The objective and the distance variables
\* ------------------------------------------------------------------------
Abs(m) == IF m >= 0 THEN m ELSE -m

\* The coordinate of screen sc on the axis ax in the packer's solution
Coordinate(sc, ax) == Member(packer_screen_positions(packer.solution, nb_screen)[sc], ax)

CrossAxis(d) == IF d \in {left, right} THEN Y ELSE X

\* The difference of the coordinates of sa and sb in the direction d
SignedGap(d, sa, sb) ==
    IF d \in {left, above}
    THEN Coordinate(sb, DirAxis(d)) - Coordinate(sa, DirAxis(d))
    ELSE Coordinate(sa, DirAxis(d)) - Coordinate(sb, DirAxis(d))

\* size_sa - size_sb on the cross axis of the pair ordered by d
CrossSizeDifference(d, sa, sb) ==
    Member(screen_sizes[sa], CrossAxis(d)) - Member(screen_sizes[sb], CrossAxis(d))

SolvedTemplate == Template(nb_screen, a, b)

\* C16: in every solution of the packer each distance variable D of a pair
\* sa > sb equals |u - v + Delta|, u and v the coordinates of sa and sb on
\* the cross axis and Delta = (size_sa - size_sb) / 2 truncated toward
\* zero, the offset of the other inequality being its exact negation; the
\* objective is the sum over the pairs of the coordinate difference on the
\* constrained axis and of D, and is not negative.
C16_ObjectiveAndDistances ==
    (pc = "record" /\ solve(packer.solution)) =>
        LET t == SolvedTemplate
            D(k) == solution_val(packer.solution, v_max_var(nb_screen, k - 1))
            diff(k) == CrossSizeDifference(t[k][3], t[k][1], t[k][2])
            delta(k) == TruncDiv(diff(k), 2)
            u(k) == Coordinate(t[k][1], CrossAxis(t[k][3]))
            v(k) == Coordinate(t[k][2], CrossAxis(t[k][3]))
        IN  /\ \A k \in DOMAIN t :
                  /\ t[k][1] > t[k][2]
                  /\ D(k) = Abs(u(k) - v(k) + delta(k))
                  /\ TruncDiv(-diff(k), 2) = -delta(k)
                  /\ Abs(2 * delta(k)) <= Abs(diff(k))
                  /\ Abs(diff(k)) - Abs(2 * delta(k)) <= 1
                  /\ delta(k) * diff(k) >= 0
            /\ objective(packer.solution) =
                  SumOver([k \in DOMAIN t |-> SignedGap(t[k][3], t[k][1], t[k][2]) + D(k)],
                          DOMAIN t)
            /\ objective(packer.solution) >= 0

\* A solution for a pair whose first screen is the smaller one on the cross
\* axis by an odd difference, and for a pair whose D is not zero
C16_Witness ==
    /\ pc = "record"
    /\ solve(packer.solution)
    /\ \E k \in DOMAIN SolvedTemplate :
          LET t == SolvedTemplate[k]
          IN  /\ CrossSizeDifference(t[3], t[1], t[2]) < 0
              /\ CrossSizeDifference(t[3], t[1], t[2]) % 2 = 1
    /\ objective(packer.solution) > 0

\* ------------------------------------------------------------------------
\* Completeness of the search
\* ------------------------------------------------------------------------
\* pos places every screen inside a virtual screen of size (w, h), no two
\* screens overlap, and every constraint of the matrix holds
IsPlacement(pos, w, h) ==
    /\ \A sc \in Screens :
          /\ pos[sc].x + screen_sizes[sc].x <= w
          /\ pos[sc].y + screen_sizes[sc].y <= h
    /\ \A sa, sb \in Screens :
          sa # sb =>
              /\ Rectangle(pos, screen_sizes, sa) \cap Rectangle(pos, screen_sizes, sb) = {}
              /\ Satisfies(pos, screen_sizes, user_constraints[sa][sb], sa, sb)

PlacementExists ==
    \E w \in vscreen_min_size.x..vscreen_max_size.x :
        \E h \in vscreen_min_size.y..vscreen_max_size.y :
            \E pos \in [Screens -> {pair(px, py) : px \in 0..w, py \in 0..h}] :
                IsPlacement(pos, w, h)

\* C17: whenever the screens can be placed without overlap inside a
\* virtual screen of a size between vscreen_min_size and vscreen_max_size
\* so that every constraint of the matrix holds, compute_screen_layout
\* returns true.
C17_Completeness ==
    Done => (PlacementExists => returned)

\* ------------------------------------------------------------------------
\* The life of a packer
\* ------------------------------------------------------------------------
ClientRun == pc \in {"client", "constructed", "destroyed"}

\* C18: a packer of compute_screen_layout is destroyed before the next
\* template is tried and before the function returns, so at most one is
\* live and none after the return; whether solve is called zero, one or
\* several times and whether it finds a solution or not, the context, the
\* local space, the constraint set and the sample point are each released
\* exactly once, never twice, and the set is not used after
\* isl_set_lexmin took it; a repeated solve returns the same answer and
\* leaves the same solution.
C18_PackerLifecycle ==
    /\ packer.alive <=> pc \in {"record", "constructed"}
    /\ packer.misuse = {}
    /\ \A r \in Resources : packer.released[r] <= packer.allocated[r] /\ packer.allocated[r] <= 1
    /\ ~packer.alive => \A r \in Resources : packer.released[r] = packer.allocated[r]
    /\ packer.alive =>
          /\ live(packer, "context") /\ live(packer, "ls")
          /\ live(packer, "solutions") <=> packer.solutions = "set"
          /\ live(packer, "solution") <=> packer.solution # NullPoint
          /\ live(packer, "solutions") <=> ~live(packer, "solution")
    /\ pc \in {"next", "done", "destroyed"} /\ packer # NoPacker =>
          /\ \A r \in Resources \ {"solution"} : packer.released[r] = 1
          /\ packer.released["solution"] = (IF ClientRun /\ tried = <<>> THEN 0 ELSE 1)
    /\ ClientRun =>
          \A k \in 1..Len(tried) :
              /\ tried[k] = tried[1]
              /\ pc = "constructed" => tried[k].solution = packer.solution

\* A packer destroyed after two calls of solve that found no solution
C18_Witness ==
    /\ pc = "destroyed"
    /\ Len(tried) = 2
    /\ ~tried[2].returned
    /\ nb_screen >= 2
    /\ packer.released = [r \in Resources |-> 1]

====
